---- MODULE Spec2Model ----
(***************************************************************************)
(* A model of operations_research::TimeLimit (src/util/time_limit.h).      *)
(*                                                                         *)
(* Units.  An int64 nanosecond count of the code is an integer number of   *)
(* clock ticks.  A double number of seconds of the code is an integer      *)
(* number of sub-ticks, SubPerNs sub-ticks to the tick, so that the        *)
(* conversion static_cast<int64>(x * 1e9) truncates as it does in the code *)
(* and the conversion ns * 1e-9 is exact.  The double infinity is the      *)
(* value Infinity, larger than every finite double of the model.  int64 is *)
(* scaled down to the range -kint64max-1 .. kint64max; the wall clock      *)
(* (nanoseconds since the epoch) stays below half of kint64max, as it does *)
(* on a real machine, so current_ns + gap never overflows.                 *)
(***************************************************************************)
EXTENDS Integers, Sequences, FiniteSets, TLC

(* ---------------------------- bounds ----------------------------------- *)
\* The wall clock runs from the construction instant up to MaxClock.
MaxClock == 7
\* With an infinite deterministic limit the deterministic time is advanced up
\* to MaxDet,
MaxDet == 3
\* and with a finite one up to MaxOver beyond the limit.
MaxOver == 1

(* ------------------------ program constants ---------------------------- *)
\* std::numeric_limits<double>::infinity()
Infinity == 1000
\* kint64max, int64 scaled down to 7 bits
kint64max == 63
\* the factor 1e9 between seconds (double) and nanoseconds (int64), scaled
SubPerNs == 2
\* TimeLimit::kSafetyBufferSeconds (a double, in sub-ticks) and
\* TimeLimit::kHistorySize: the header declares them and leaves their values to
\* time_limit.cc; the model takes a margin of one tick and a window of two
\* samples.
kSafetyBufferSeconds == 2
kHistorySize == 2

(* --------------------------- inputs ------------------------------------ *)
\* base::GetCurrentTimeNanos() at construction
StartTimes == {1}
\* a finite limit_in_seconds so large that start_ns_ + limit overflows int64
HugeLimit == SubPerNs * kint64max
\* limit_in_seconds given to the constructor (>= 0, or infinite)
Limits == {0, 4, 13, HugeLimit, Infinity}
\* deterministic_limit given to the constructor (>= 0, or infinite)
DetLimits == {0, 2, Infinity}
\* deterministic_duration given to AdvanceDeterministicTime (>= 0)
Durations == {0, 1, 2, 3}
\* seconds of CPU time the thread uses during one tick of the wall clock: none
\* (it waits) or the whole tick (it runs)
CpuPerTick == {0, SubPerNs}

VARIABLES
  now,                          \* base::GetCurrentTimeNanos(), the wall clock
  utime,                        \* user_timer_.Get(), seconds of CPU time used
  use_usertime,                 \* FLAGS_time_limit_use_usertime
  start_ns,                     \* start_ns_
  last_ns,                      \* last_ns_
  limit_ns,                     \* limit_ns_
  running_max,                  \* running_max_: the last kHistorySize samples
  limit_in_seconds,             \* the constructor's argument (limit_in_seconds_)
  deterministic_limit,          \* deterministic_limit_
  elapsed_deterministic_time,   \* elapsed_deterministic_time_
  op,                           \* the operation performed last
  ret,                          \* what the last LimitReached() call returned
  latched,                      \* some LimitReached() call has returned true
  sum_durations,                \* the sum of AdvanceDeterministicTime's arguments
  call_ns                       \* the clock readings of the recent LimitReached() calls

vars == <<now, utime, use_usertime, start_ns, last_ns, limit_ns, running_max,
          limit_in_seconds, deterministic_limit, elapsed_deterministic_time,
          op, ret, latched, sum_durations, call_ns>>

(* --------------------------- arithmetic -------------------------------- *)
Max(a, b) == IF a >= b THEN a ELSE b

RECURSIVE SeqMax(_)
SeqMax(s) == IF Len(s) = 1 THEN s[1] ELSE Max(s[1], SeqMax(Tail(s)))

\* static_cast<int64>(x * 1e9): a double of seconds to nanoseconds, truncating
\* toward zero
ToNanos(x) == IF x >= 0 THEN x \div SubPerNs ELSE -((-x) \div SubPerNs)

\* ns * 1e-9 (also 1e-9 * ns): nanoseconds to a double of seconds
ToSeconds(ns) == ns * SubPerNs

\* a - b on doubles, b finite
DoubleMinus(a, b) == IF a = Infinity THEN Infinity ELSE a - b

(* ------------------------ RunningMax<int64> ---------------------------- *)
\* util/running_stat.h is not among the sources; the class is modelled from
\* its contract, the maximum over the last kHistorySize samples added.
\* RunningMax::Add: the window keeps the last kHistorySize samples
RunningMaxAdd(w, x) ==
  IF Len(w) < kHistorySize THEN Append(w, x) ELSE Append(Tail(w), x)

\* RunningMax::GetCurrentMax
GetCurrentMax(w) == SeqMax(w)

(* --------------------------- TimeLimit --------------------------------- *)
safety_buffer_ns == ToNanos(kSafetyBufferSeconds)

\* InitialLimitNs with the two branches of the conditional exchanged
InitialLimitNsSwapped(limit, start) ==
  IF limit >= ToSeconds(kint64max - start)
  THEN ToNanos(limit) + start
  ELSE kint64max

\* InitialLimitNs without the test that saturates
InitialLimitNsUnsaturated(limit, start) == ToNanos(limit) + start

\* the constructor's initializer of limit_ns_
InitialLimitNs(limit, start) ==
  IF limit >= ToSeconds(kint64max - start)
  THEN kint64max
  ELSE ToNanos(limit) + start

GetDeterministicTimeLeft ==
  Max(0, DoubleMinus(deterministic_limit, elapsed_deterministic_time))

\* DeterministicLimitReached with < for <=
DeterministicLimitReachedStrict == GetDeterministicTimeLeft < 0

\* LimitReached()'s first test
DeterministicLimitReached == GetDeterministicTimeLeft <= 0

\* PaddedTest without the padding
PaddedTestUnpadded(current_ns, w) == current_ns >= limit_ns

\* PaddedTest with > for >=
PaddedTestStrict(current_ns, w) == current_ns + GetCurrentMax(w) > limit_ns

\* LimitReached()'s second test, on the clock reading and the updated window
PaddedTest(current_ns, w) == current_ns + GetCurrentMax(w) >= limit_ns

\* UserTimeMode with the flag taken as set
UserTimeModeAlways == TRUE

\* the test of FLAGS_time_limit_use_usertime in LimitReached() and GetTimeLeft()
UserTimeMode == use_usertime

\* LatchValue with limit_ns_ left as it is
LatchValueKept == limit_ns

\* the value LimitReached() gives limit_ns_ "to ensure that future calls to
\* LimitReached() will return true"
LatchValue == 0

\* DeterministicTimeAfter with = for +=
DeterministicTimeAfterAssigned(deterministic_duration) == deterministic_duration

\* what AdvanceDeterministicTime leaves in elapsed_deterministic_time_
DeterministicTimeAfter(deterministic_duration) ==
  elapsed_deterministic_time + deterministic_duration

GetElapsedDeterministicTime == elapsed_deterministic_time

GetElapsedTime == ToSeconds(now - start_ns)

\* GetTimeLeft without the test of delta_ns < 0
GetTimeLeftUnclamped ==
  IF limit_ns = kint64max THEN Infinity
  ELSE IF UserTimeMode
       THEN Max(DoubleMinus(limit_in_seconds, utime), 0)
       ELSE ToSeconds(limit_ns - now)

GetTimeLeft ==
  IF limit_ns = kint64max THEN Infinity
  ELSE LET delta_ns == limit_ns - now
       IN IF delta_ns < 0 THEN 0
          ELSE IF UserTimeMode
               THEN Max(DoubleMinus(limit_in_seconds, utime), 0)
               ELSE ToSeconds(delta_ns)

\* the clock readings kept for the statements about the recent calls
Remember(s, t) ==
  IF Len(s) < kHistorySize + 2 THEN Append(s, t) ELSE Append(Tail(s), t)

\* the state after TimeLimit(limit_in_seconds, deterministic_limit), for the
\* arguments and the flag drawn from the given sets
Construct(limits, deterministic_limits, flags) ==
  /\ now \in StartTimes
  /\ utime = 0
  /\ use_usertime \in flags
  /\ start_ns = now
  /\ last_ns = start_ns
  /\ limit_in_seconds \in limits
  /\ limit_ns = InitialLimitNs(limit_in_seconds, start_ns)
  /\ running_max = << >>
  /\ deterministic_limit \in deterministic_limits
  /\ elapsed_deterministic_time = 0
  /\ op = "TimeLimit"
  /\ ret = FALSE
  /\ latched = FALSE
  /\ sum_durations = 0
  /\ call_ns = <<now>>

Init == Construct(Limits, DetLimits, BOOLEAN)

\* RecordedGap without the clamp to the safety buffer
RecordedGapUnclamped(current_ns) == current_ns - last_ns

\* the sample LimitReached() adds to running_max_
RecordedGap(current_ns) == Max(safety_buffer_ns, current_ns - last_ns)

\* ExtendedLimitNs counted from start_ns_ instead of last_ns_
ExtendedLimitNsFromStart(time_left_s, current_ns) == ToNanos(time_left_s) + start_ns

\* the value LimitReached() gives limit_ns_ when user time is left; last_ns_
\* is current_ns by then
ExtendedLimitNs(time_left_s, current_ns) == ToNanos(time_left_s) + current_ns

\* LimitReachedDeterministic that also sets limit_ns_ to the latch value
LimitReachedDeterministicLatching ==
  /\ DeterministicLimitReached
  /\ ret' = TRUE
  /\ limit_ns' = LatchValue
  /\ UNCHANGED <<last_ns, running_max, call_ns>>

\* the first return of LimitReached(): the deterministic limit
LimitReachedDeterministic ==
  /\ DeterministicLimitReached
  /\ ret' = TRUE
  /\ UNCHANGED <<last_ns, limit_ns, running_max, call_ns>>

\* the rest of LimitReached(): the padded test of the wall clock
LimitReachedWallClock ==
  /\ ~DeterministicLimitReached
  /\ LET current_ns == now
         w == RunningMaxAdd(running_max, RecordedGap(current_ns))
         time_left_s == DoubleMinus(limit_in_seconds, utime)
     IN /\ running_max' = w
        /\ last_ns' = current_ns
        /\ call_ns' = Remember(call_ns, current_ns)
        /\ IF PaddedTest(current_ns, w)
           THEN IF UserTimeMode /\ time_left_s > kSafetyBufferSeconds
                THEN /\ limit_ns' = ExtendedLimitNs(time_left_s, current_ns)
                     /\ ret' = FALSE
                ELSE /\ limit_ns' = LatchValue
                     /\ ret' = TRUE
           ELSE /\ limit_ns' = limit_ns
                /\ ret' = FALSE

LimitReached ==
  /\ LimitReachedDeterministic \/ LimitReachedWallClock
  /\ op' = "LimitReached"
  /\ latched' = (latched \/ ret')
  /\ UNCHANGED <<now, utime, use_usertime, start_ns, limit_in_seconds,
                 deterministic_limit, elapsed_deterministic_time, sum_durations>>

\* how far the model advances the deterministic time
DetCap ==
  IF deterministic_limit = Infinity THEN MaxDet ELSE deterministic_limit + MaxOver

AdvanceDeterministicTime(deterministic_duration) ==
  /\ 0 <= deterministic_duration
  /\ elapsed_deterministic_time + deterministic_duration <= DetCap
  /\ elapsed_deterministic_time' = DeterministicTimeAfter(deterministic_duration)
  /\ sum_durations' = sum_durations + deterministic_duration
  /\ op' = "AdvanceDeterministicTime"
  /\ UNCHANGED <<now, utime, use_usertime, start_ns, last_ns, limit_ns, running_max,
                 limit_in_seconds, deterministic_limit, ret, latched, call_ns>>

\* the four queries
Queries == {"GetTimeLeft", "GetDeterministicTimeLeft", "GetElapsedTime",
            "GetElapsedDeterministicTime"}

\* QueryFields for a query that keeps the clock reading it took in last_ns_
QueryFieldsClockKept ==
  /\ last_ns' = now
  /\ UNCHANGED <<limit_ns, running_max, elapsed_deterministic_time>>

\* what a query does to the fields that LimitReached() and
\* AdvanceDeterministicTime() write: the queries are const and assign nothing
QueryFields ==
  UNCHANGED <<last_ns, limit_ns, running_max, elapsed_deterministic_time>>

\* GetTimeLeft(), GetDeterministicTimeLeft(), GetElapsedTime() and
\* GetElapsedDeterministicTime() are const: a call changes no field
Query ==
  /\ op' \in Queries
  /\ QueryFields
  /\ UNCHANGED <<now, utime, use_usertime, start_ns,
                 limit_in_seconds, deterministic_limit,
                 ret, latched, sum_durations, call_ns>>

\* The wall clock advances by one tick; the thread uses at most that much CPU
\* time meanwhile (the user timer runs only when the flag is set).
Tick ==
  /\ now < MaxClock
  /\ now' = now + 1
  /\ \E u \in CpuPerTick :
        utime' = IF use_usertime THEN utime + u ELSE utime
  /\ op' = "Tick"
  /\ UNCHANGED <<use_usertime, start_ns, last_ns, limit_ns, running_max,
                 limit_in_seconds, deterministic_limit, elapsed_deterministic_time,
                 ret, latched, sum_durations, call_ns>>

Next ==
  \/ LimitReached
  \/ \E d \in Durations : AdvanceDeterministicTime(d)
  \/ Query
  \/ Tick

Spec == Init /\ [][Next]_vars

\* Trackers built with an infinite wall-clock limit; the deterministic limit 10
\* of the scenario "limit 10, advance by 3, 3, 3 and 2" is among their
\* deterministic limits.
InitInfinite == Construct({Infinity}, DetLimits \cup {10}, BOOLEAN)

SpecInfinite == InitInfinite /\ [][Next]_vars

\* Trackers in wall-clock mode built with a finite limit that the clock of the
\* model passes; the clock keeps advancing and LimitReached() keeps being
\* called.
PassedLimits ==
  {l \in Limits : \A s \in StartTimes : InitialLimitNs(l, s) <= MaxClock}

InitLive == Construct(PassedLimits, DetLimits, {FALSE})

SpecLive == InitLive /\ [][Next]_vars /\ WF_vars(Tick) /\ WF_vars(LimitReached)

(* ------------------------------ claims --------------------------------- *)
\* the last n elements of s
LastN(s, n) == SubSeq(s, Max(1, Len(s) - n + 1), Len(s))

\* the largest difference of two consecutive elements of s (0 when there is none)
MaxGap(s) ==
  LET G == {s[i + 1] - s[i] : i \in 1 .. Len(s) - 1}
  IN IF G = {} THEN 0 ELSE CHOOSE g \in G : \A h \in G : g >= h

\* C1 (monotonic latch): once a LimitReached() call has returned true, every
\* later LimitReached() call returns true.
C1_MonotonicLatch ==
  [][(latched /\ op' = "LimitReached") => ret']_vars

\* A second LimitReached() call on a tracker that the padded wall-clock test
\* has latched, deterministic time still left.
C1_Witness ==
  /\ op = "LimitReached" /\ ret /\ latched
  /\ limit_in_seconds = 0 /\ limit_ns = LatchValue
  /\ ~DeterministicLimitReached
  /\ Len(call_ns) >= 3

\* C2 (deterministic dominance): a LimitReached() call made when the durations
\* passed to AdvanceDeterministicTime sum to the deterministic limit or more
\* returns true, whatever the wall-clock limit, the clock and the mode.
C2_DeterministicDominance ==
  (op = "LimitReached" /\ sum_durations >= deterministic_limit) => ret

\* LimitReached() returns true on the deterministic limit alone: the wall-clock
\* limit is infinite and time was advanced up to the limit exactly.
C2_Witness ==
  /\ op = "LimitReached" /\ ret
  /\ sum_durations = deterministic_limit /\ sum_durations > 0
  /\ limit_in_seconds = Infinity /\ limit_ns = kint64max

\* C3 (conservatism bound): in wall-clock mode with a finite limit L, no
\* LimitReached() call made at an instant >= start_instant + L - safety_margin
\* returns false.
C3_ConservatismBound ==
  ( /\ op = "LimitReached"
    /\ ~use_usertime
    /\ limit_in_seconds # Infinity
    /\ ToSeconds(now) >= ToSeconds(start_ns) + limit_in_seconds - kSafetyBufferSeconds )
  => ret

\* The first call at exactly start_instant + L - safety_margin, before the
\* limit itself: it returns true on the padded test.
C3_Witness ==
  /\ op = "LimitReached" /\ ret /\ ~use_usertime
  /\ ~DeterministicLimitReached
  /\ limit_in_seconds = 4
  /\ ToSeconds(now) = ToSeconds(start_ns) + limit_in_seconds - kSafetyBufferSeconds
  /\ Len(call_ns) = 2

\* C4: after a LimitReached() call has returned true, GetTimeLeft() returns 0,
\* for every wall-clock limit other than infinite.
C4_TimeLeftZeroAfterReached ==
  (latched /\ limit_in_seconds # Infinity) => GetTimeLeft = 0

\* C5 (non-negativity): GetTimeLeft() >= 0 and GetDeterministicTimeLeft() >= 0,
\* and GetDeterministicTimeLeft() is deterministic_limit - deterministic_elapsed
\* where that is positive and 0 where it is not.
C5_NonNegativity ==
  /\ GetTimeLeft >= 0
  /\ GetDeterministicTimeLeft >= 0
  /\ deterministic_limit = Infinity => GetDeterministicTimeLeft = Infinity
  /\ ( /\ deterministic_limit # Infinity
       /\ deterministic_limit >= elapsed_deterministic_time )
     => GetDeterministicTimeLeft = deterministic_limit - elapsed_deterministic_time
  /\ ( /\ deterministic_limit # Infinity
       /\ deterministic_limit < elapsed_deterministic_time )
     => GetDeterministicTimeLeft = 0

\* The clock is past a limit that no call has latched, and the deterministic
\* time is past its limit: both differences are negative.
C5_Witness ==
  /\ limit_ns # LatchValue /\ limit_ns - now < 0
  /\ deterministic_limit - elapsed_deterministic_time < 0
  /\ GetTimeLeft = 0 /\ GetDeterministicTimeLeft = 0

\* C6 (infinite-limit identity): built with an infinite wall-clock limit,
\* GetTimeLeft() returns infinity, limit_ns_ stays at kint64max, and a
\* LimitReached() call returns true exactly when the deterministic time
\* elapsed is the deterministic limit or more: with the limit 10, false after
\* advances of 9 in all and true after advances of 11 in all.
C6_InfiniteLimitIdentity ==
  /\ GetTimeLeft = Infinity
  /\ limit_ns = kint64max
  /\ op = "LimitReached" =>
       (ret <=> elapsed_deterministic_time >= deterministic_limit)
  /\ ( /\ op = "LimitReached"
       /\ deterministic_limit = 10 )
     => /\ sum_durations = 9 => ~ret
        /\ sum_durations = 11 => ret

\* The scenario's last call: limit 10, 11 advanced, the clock advanced too.
C6_Witness ==
  /\ op = "LimitReached" /\ ret
  /\ deterministic_limit = 10 /\ sum_durations = 11
  /\ now > start_ns /\ Len(call_ns) >= 2

\* C7 as claimed: GetTimeLeft() returns infinity only if limit_in_seconds was
\* infinite, and GetDeterministicTimeLeft() only if deterministic_limit was.
C7_InfiniteOnlyIfConfigured ==
  /\ GetTimeLeft = Infinity => limit_in_seconds = Infinity
  /\ GetDeterministicTimeLeft = Infinity => deterministic_limit = Infinity

\* C7 as amended: GetTimeLeft() returns infinity only if the constructor
\* saturated limit_ns_, that is if limit_in_seconds >= 1e-9 * (kint64max -
\* start_ns_), infinite or not; GetDeterministicTimeLeft() returns infinity
\* only if deterministic_limit was infinite.
C7_InfiniteOnlyIfSaturated ==
  /\ GetTimeLeft = Infinity => limit_in_seconds >= ToSeconds(kint64max - start_ns)
  /\ GetDeterministicTimeLeft = Infinity => deterministic_limit = Infinity

\* A GetTimeLeft() call that returns infinity on a tracker built with a finite
\* limit, after LimitReached() calls and clock ticks.
C7_Witness ==
  /\ op = "GetTimeLeft" /\ GetTimeLeft = Infinity
  /\ limit_in_seconds = HugeLimit
  /\ now > start_ns /\ Len(call_ns) >= 2

\* C8 (stopping rule): in wall-clock mode a LimitReached() call made with
\* deterministic time left on a tracker not yet latched returns true exactly
\* when current_instant + max(T, safety_margin) >= limit_instant, T the
\* largest gap between consecutive clock readings among the last kHistorySize
\* gaps, this call's included; older gaps do not count.
C8_StoppingRule ==
  [][( /\ ~use_usertime
       /\ op' = "LimitReached"
       /\ ~DeterministicLimitReached
       /\ ~latched )
     => (ret' <=>
          now + Max(MaxGap(LastN(call_ns', kHistorySize + 1)), safety_buffer_ns)
             >= limit_ns)]_vars

\* A call that returns false although the gap that has just left the window,
\* larger than every gap in it, would have tripped the test.
C8_Witness ==
  /\ op = "LimitReached" /\ ~ret /\ ~use_usertime
  /\ Len(call_ns) = kHistorySize + 2
  /\ LET old == call_ns[2] - call_ns[1]
     IN /\ old > Max(MaxGap(LastN(call_ns, kHistorySize + 1)), safety_buffer_ns)
        /\ now + old >= limit_ns

\* C9 (eventual exhaustion): in wall-clock mode with a finite limit, the clock
\* advancing past the limit and LimitReached() called again and again,
\* LimitReached() eventually returns true and returns true from then on.
C9_EventualExhaustion == <>[](latched /\ ret)

\* The padded test has latched a tracker whose deterministic time is left.
C9_Witness ==
  /\ op = "LimitReached" /\ ret /\ latched /\ ~use_usertime
  /\ limit_in_seconds = 13 /\ limit_ns = LatchValue
  /\ ~DeterministicLimitReached

\* C10: deterministic_elapsed starts at 0, only AdvanceDeterministicTime
\* changes it, it never decreases, and GetElapsedDeterministicTime() is the
\* sum of the durations passed to AdvanceDeterministicTime().
C10_ElapsedDeterministicTime ==
  /\ elapsed_deterministic_time = 0
  /\ [][ /\ elapsed_deterministic_time' >= elapsed_deterministic_time
         /\ elapsed_deterministic_time' # elapsed_deterministic_time
              => op' = "AdvanceDeterministicTime"
         /\ GetElapsedDeterministicTime' = sum_durations' ]_vars

\* A LimitReached() call after advances of MaxDet in all.
C10_Witness ==
  /\ op = "LimitReached"
  /\ deterministic_limit = Infinity
  /\ sum_durations = MaxDet /\ GetElapsedDeterministicTime = MaxDet

(* ------------------- callers that break the contract ------------------- *)
\* negative values of deterministic_duration
NegativeDurations == {0 - 1, 0 - 2}

\* AdvanceDeterministicTime(deterministic_duration) with a negative argument.
\* DCHECK_LE(0.0, deterministic_duration) ends the process in a build that
\* checks DCHECKs; a build with NDEBUG compiles it to nothing and the += runs.
AdvanceDeterministicTimeNegative(deterministic_duration) ==
  /\ deterministic_duration < 0
  /\ elapsed_deterministic_time + deterministic_duration >= 0 - MaxOver
  /\ \/ /\ op' = "DCHECK_LE failed"
        /\ UNCHANGED <<elapsed_deterministic_time, sum_durations>>
     \/ /\ elapsed_deterministic_time' = DeterministicTimeAfter(deterministic_duration)
        /\ sum_durations' = sum_durations + deterministic_duration
        /\ op' = "AdvanceDeterministicTime"
  /\ UNCHANGED <<now, utime, use_usertime, start_ns, last_ns, limit_ns, running_max,
                 limit_in_seconds, deterministic_limit, ret, latched, call_ns>>

\* nothing runs after a failed DCHECK
NextMisuse ==
  /\ op # "DCHECK_LE failed"
  /\ \/ Next
     \/ \E d \in NegativeDurations : AdvanceDeterministicTimeNegative(d)

InitMisuse == Construct({4}, DetLimits, {FALSE})

SpecMisuse == InitMisuse /\ [][NextMisuse]_vars

\* C11: a negative duration passed to AdvanceDeterministicTime is not applied:
\* deterministic_elapsed never goes down, and a tracker whose LimitReached()
\* has returned true never returns false again.
C11_NegativeDurationRejected ==
  [][ /\ elapsed_deterministic_time' >= elapsed_deterministic_time
      /\ (latched /\ op' = "LimitReached") => ret' ]_vars

\* Trackers built with a finite limit that the clock passes and a finite
\* deterministic limit, in both modes.
InitFinite == Construct({4, 13}, {2}, BOOLEAN)

SpecFinite == InitFinite /\ [][Next]_vars

(* --------------------------- claims, continued ------------------------- *)
\* what a LimitReached() call made in the current state returns
LimitReachedNow ==
  \/ DeterministicLimitReached
  \/ /\ PaddedTest(now, RunningMaxAdd(running_max,
                                       Max(safety_buffer_ns, now - last_ns)))
     /\ ~(UserTimeMode /\ DoubleMinus(limit_in_seconds, utime) > kSafetyBufferSeconds)

\* C12 (queries are pure): GetTimeLeft(), GetDeterministicTimeLeft(),
\* GetElapsedTime() and GetElapsedDeterministicTime() leave last_ns_,
\* limit_ns_, the window and the deterministic time elapsed as they are, and
\* so leave what a LimitReached() call at the same instant returns.
C12_QueriesPure ==
  [][ op' \in Queries =>
        /\ UNCHANGED <<last_ns, limit_ns, running_max, elapsed_deterministic_time>>
        /\ UNCHANGED <<start_ns, limit_in_seconds, deterministic_limit>>
        /\ LimitReachedNow' = LimitReachedNow ]_vars

\* A GetTimeLeft() call between two LimitReached() calls, the clock advanced
\* since the last one: a query that kept its clock reading would shorten the
\* next gap.
C12_Witness ==
  /\ op = "GetTimeLeft"
  /\ ~latched /\ ~DeterministicLimitReached
  /\ Len(running_max) >= 1
  /\ now > last_ns + safety_buffer_ns

\* C13 (limit_instant only ever decreases): in wall-clock mode no step raises
\* limit_ns_, and its only change is the drop to the latch value by a
\* LimitReached() call that returns true; in CPU-time mode only a
\* LimitReached() call whose padded test trips with more CPU time left than
\* the safety margin raises it, and that call returns false.
C13_LimitOnlyDecreases ==
  [][ /\ ~use_usertime =>
           /\ limit_ns' <= limit_ns
           /\ limit_ns' # limit_ns =>
                (limit_ns' = LatchValue /\ op' = "LimitReached" /\ ret')
      /\ (use_usertime /\ limit_ns' > limit_ns) =>
           /\ op' = "LimitReached" /\ ~ret'
           /\ now + GetCurrentMax(running_max') >= limit_ns
           /\ DoubleMinus(limit_in_seconds, utime) > kSafetyBufferSeconds ]_vars

\* In CPU-time mode a LimitReached() call has raised limit_ns_ above the value
\* the constructor gave it.
C13_Witness ==
  /\ use_usertime /\ op = "LimitReached" /\ ~ret
  /\ limit_ns # kint64max
  /\ limit_ns > InitialLimitNs(limit_in_seconds, start_ns)

\* the step is a LimitReached() call that takes the branch of lines 163-166:
\* its padded test trips and it returns false
ExtensionBranch ==
  /\ op' = "LimitReached"
  /\ ~DeterministicLimitReached
  /\ now + GetCurrentMax(running_max') >= limit_ns
  /\ ~ret'

\* limit_ns_ is neither the constructor's value nor the latch value: an
\* earlier call has taken the extension branch
WasExtended ==
  /\ limit_ns # InitialLimitNs(limit_in_seconds, start_ns)
  /\ limit_ns # LatchValue

\* C14 as claimed: in CPU-time mode at most one LimitReached() call of a
\* tracker takes the extension branch, so none does after limit_ns_ has been
\* extended.
C14_ExtendedAtMostOnce ==
  [][(use_usertime /\ WasExtended) => ~ExtensionBranch]_vars

\* C14 as amended: the extension branch is taken only in CPU-time mode, only
\* by a call that finds more CPU time left than the safety margin, which sets
\* limit_ns_ to its instant plus that time, and never after a call has
\* returned true; several calls of one tracker may take it.
C14_ExtensionWhileUserTimeLeft ==
  [][ExtensionBranch =>
        /\ use_usertime
        /\ ~latched
        /\ DoubleMinus(limit_in_seconds, utime) > kSafetyBufferSeconds
        /\ limit_ns' = now + ToNanos(DoubleMinus(limit_in_seconds, utime)) ]_vars

\* Two calls, at the instants 2 and 3, of a tracker built at 1 with the limit
\* 4 (two ticks) whose thread used no CPU time: both trip the padded test and
\* both extend, the second to 3 + 2.
C14_Witness ==
  /\ use_usertime /\ op = "LimitReached" /\ ~ret
  /\ limit_in_seconds = 4 /\ utime = 0
  /\ call_ns = <<1, 2, 3>>
  /\ limit_ns = 5

\* current_instant + worst_recent_gap >= limit_instant for the LimitReached()
\* call the step makes, the worst recent gap read from the window after the
\* call has added its gap
PaddedTestTrips == now + GetCurrentMax(running_max') >= limit_ns

\* C15 (CPU-time-mode extension step): a LimitReached() call in CPU-time mode
\* whose padded test trips takes cpu_time_left = limit - CPU time used; if it
\* exceeds the safety margin the call sets limit_ns_ to its instant plus
\* cpu_time_left, returns false and does not latch, otherwise it sets limit_ns_
\* to the latch value and returns true.  A call whose padded test does not
\* trip returns false and leaves limit_ns_, whatever the CPU time used.
C15_ExtensionStep ==
  [][( /\ use_usertime
       /\ op' = "LimitReached"
       /\ ~DeterministicLimitReached )
     => LET cpu_time_left == DoubleMinus(limit_in_seconds, utime)
        IN IF PaddedTestTrips
           THEN IF cpu_time_left > kSafetyBufferSeconds
                THEN /\ limit_ns' = now + ToNanos(cpu_time_left)
                     /\ limit_ns' > now
                     /\ ~ret'
                     /\ latched' = latched
                ELSE /\ limit_ns' = LatchValue
                     /\ ret'
           ELSE /\ limit_ns' = limit_ns
                /\ ~ret' ]_vars

\* An extension after the thread has used CPU time: of the limit 13 an odd
\* number of sub-ticks is left, which the conversion to nanoseconds truncates.
C15_Witness ==
  /\ use_usertime /\ op = "LimitReached" /\ ~ret /\ ~latched
  /\ limit_in_seconds = 13 /\ utime > 0
  /\ WasExtended
  /\ limit_ns = last_ns + ToNanos(limit_in_seconds - utime)
  /\ ToSeconds(limit_ns - last_ns) < limit_in_seconds - utime

\* C16 (CPU-time mode stays conservative): with a thread that uses CPU time no
\* faster than the wall clock advances, a LimitReached() call in CPU-time mode
\* that returns false finds more CPU time left than the safety margin; none
\* returns false once the CPU time used has reached limit_in_seconds_.
C16_UserTimeConservative ==
  (use_usertime /\ op = "LimitReached")
    => /\ ~ret => DoubleMinus(limit_in_seconds, utime) > kSafetyBufferSeconds
       /\ utime >= limit_in_seconds => ret

\* A call answers false on an extended limit_ns_ after the thread has used
\* CPU time, with little more than twice the safety margin of it left.
C16_Witness ==
  /\ use_usertime /\ op = "LimitReached" /\ ~ret
  /\ WasExtended
  /\ utime > 0
  /\ DoubleMinus(limit_in_seconds, utime) <= 2 * kSafetyBufferSeconds + 1

(* ------------------- a clock that is not monotonic --------------------- *)
\* base::GetCurrentTimeNanos() answers an earlier instant than it has answered
\* before (the clock was set back); the CPU time used is not affected.
ClockBack ==
  /\ now > 0
  /\ now' = now - 1
  /\ op' = "ClockBack"
  /\ UNCHANGED <<utime, use_usertime, start_ns, last_ns, limit_ns, running_max,
                 limit_in_seconds, deterministic_limit, elapsed_deterministic_time,
                 ret, latched, sum_durations, call_ns>>

NextAnomaly ==
  \/ Next
  \/ ClockBack

\* a wall-clock tracker: the CPU time used plays no part, and with a clock that
\* steps back it would grow without bound between two readings of the clock
InitAnomaly == Construct({4}, {2}, {FALSE})

SpecAnomaly == InitAnomaly /\ [][NextAnomaly]_vars

\* C17 (clock-anomaly clamping): with a clock that may step back, every
\* LimitReached() call that reads the clock records
\* max(safety_buffer_ns, current_ns - last_ns_) in the window, so a non-empty
\* window never has a maximum below safety_buffer_ns; and once a call has
\* returned true every later call returns true, whatever the clock did between.
C17_ClockAnomalyClamped ==
  /\ [](running_max # << >> => GetCurrentMax(running_max) >= safety_buffer_ns)
  /\ [][(op' = "LimitReached" /\ ~DeterministicLimitReached)
          => /\ running_max' # << >>
             /\ running_max'[Len(running_max')] = Max(safety_buffer_ns, now - last_ns)]_vars
  /\ [][(latched /\ op' = "LimitReached") => ret']_vars
  /\ [][op' = "ClockBack" => (latched' = latched /\ limit_ns' = limit_ns)]_vars

\* A wall-clock tracker whose padded test had tripped at one reading is asked
\* again at an earlier reading: the gap recorded is the safety margin although
\* the raw gap is negative, and the call returns true.
C17_Witness ==
  /\ op = "LimitReached" /\ ret /\ latched /\ ~use_usertime
  /\ limit_ns = LatchValue
  /\ Len(call_ns) >= 2
  /\ call_ns[Len(call_ns)] < call_ns[Len(call_ns) - 1]
  /\ call_ns[Len(call_ns) - 1] + safety_buffer_ns
       >= InitialLimitNs(limit_in_seconds, start_ns)
  /\ last_ns = call_ns[Len(call_ns)]
  /\ running_max[Len(running_max)] = safety_buffer_ns

\* C18 (deterministic short-circuit): a LimitReached() call made while
\* GetDeterministicTimeLeft() <= 0 returns true, takes no clock reading and
\* leaves last_ns_, the window and limit_ns_ as they are; limit_ns_ is not set
\* to the latch value.
C18_DeterministicShortCircuit ==
  [][(op' = "LimitReached" /\ GetDeterministicTimeLeft <= 0)
       => /\ ret'
          /\ UNCHANGED <<last_ns, running_max, limit_ns, call_ns>> ]_vars

\* The deterministic limit answers a call made later than the last clock
\* reading, at an instant where the padded test would have tripped: limit_ns_
\* is still the finite value it had and last_ns_ is still the earlier reading.
C18_Witness ==
  /\ op = "LimitReached" /\ ret
  /\ GetDeterministicTimeLeft <= 0
  /\ limit_ns # LatchValue /\ limit_ns # kint64max
  /\ running_max # << >>
  /\ now > last_ns
  /\ now + GetCurrentMax(running_max) >= limit_ns

(* ------------------ limits within the safety margin -------------------- *)
SmallLimits == {0, 1, kSafetyBufferSeconds}

InitSmall == Construct(SmallLimits, DetLimits, {FALSE})

SpecSmall == InitSmall /\ [][Next]_vars

\* C19 (a limit within the safety margin is exhausted at once): a wall-clock
\* tracker built with 0 <= limit_in_seconds <= kSafetyBufferSeconds answers
\* true to every LimitReached() call, the first included, and GetTimeLeft() is
\* 0 once a call has returned true.
C19_SmallLimitExhausted ==
  /\ op = "LimitReached" => ret
  /\ latched => GetTimeLeft = 0

====
